---------------------------- MODULE Spec2Model ----------------------------
(***************************************************************************)
(* Model of the products API (mrops-br/testing-otlp-api).                  *)
(*                                                                         *)
(* Part 1: the active-request tracker of the HTTP middleware chain         *)
(*   (ActiveRequestsMiddleware / routeAwareWriter, with the Recoverer that *)
(*   setupMiddleware registers outside of it).                             *)
(* Part 2: the in-memory ProductRepository guarded by a sync.RWMutex.      *)
(* Part 3: the process (main), its Telemetry in either mode, the logger    *)
(*   and the requests served by ProductHandler and ProductService.         *)
(* Part 4: goroutines that work at the same time on one response writer,   *)
(*   on the use case CreateProduct, and the error responses.               *)
(***************************************************************************)
EXTENDS Integers, Sequences, FiniteSets, TLC

(***************************************************************************)
(* Bounds                                                                  *)
(***************************************************************************)
\* number of requests that may be in flight at the same time
NumReqs == 2
\* number of Write/WriteHeader calls a handler issues at most
MaxWrites == 2

Reqs == 1..NumReqs

(***************************************************************************)
(* Part 1 -- state                                                         *)
(***************************************************************************)
VARIABLES
    instrumentOK,    \* meter.Int64UpDownCounter returned err == nil
    pc,              \* position of each request in the middleware chain
    request,         \* the *http.Request: method, URL.Path, Host
    rctxPattern,     \* chi.RouteContext(ctx).RoutePattern(), "" until matched
    wrapped,         \* the handler's writer is a routeAwareWriter
    incrementDone,   \* routeAwareWriter.incrementDone
    decrementDone,   \* routeAwareWriter.decrementDone
    activeRequests,  \* per request: the Add calls made on the instrument
    nwrites,         \* handler calls that reached the ResponseWriter
    cancelled,       \* the request context is cancelled
    httpRoute,       \* the route HTTPRouteContext stored in the context
    completed        \* "HTTP request completed" records of StructuredLogger

trackerVars == <<instrumentOK, pc, request, rctxPattern, wrapped,
                 incrementDone, decrementDone, activeRequests, nwrites,
                 cancelled, httpRoute, completed>>

(***************************************************************************)
(* Part 2 -- state                                                         *)
(***************************************************************************)
VARIABLES
    products,     \* r.products: map from identifier to *domain.Product
    heap,         \* the Product struct each pointer points to
    muWriter,     \* r.mu: the goroutine that called Lock (holds or awaits it)
    muReaders,    \* r.mu: the goroutines holding the read lock
    spc,          \* position of each goroutine inside the repository
    arg,          \* argument of the running call: a product or an identifier
    iter,         \* FindAll: map keys the range loop has still to visit
    acc,          \* FindAll: the products slice built so far
    ret,          \* what the last finished call returned
    called,       \* history: the products Create was called with
    succeeded     \* history: the products whose Create returned nil

storeVars == <<products, heap, muWriter, muReaders, spc, arg, iter, acc, ret,
               called, succeeded>>

(***************************************************************************)
(* Part 3 -- state                                                         *)
(***************************************************************************)
VARIABLES
    enabled,       \* cfg.OTLP.Enabled
    mpc,           \* position of main
    telem,         \* main's telem, NoTelemetry until it is constructed
    nConstructed,  \* history: calls of NewTelemetry/NewNoOpTelemetry that
                   \* returned a Telemetry
    nShutdown,     \* history: calls of Telemetry.Shutdown
    tpShutdown,    \* TracerProvider.Shutdown has been called
    mpShutdown,    \* MeterProvider.Shutdown has been called
    shutdownCtx,   \* the context Telemetry.Shutdown was called with
    shutdownErr,   \* what Telemetry.Shutdown returned
    quit,          \* a signal is waiting in the quit channel
    ctxDone,       \* main's ctx is cancelled
    serverUp,      \* server.Start: "down", "up" (serving) or "failed"
    stdout,        \* the log records written by the last step
    stderr,        \* the lines written through the standard log package
    nalloc,        \* the Product structs NewProduct has allocated
    ncalls,        \* the requests the handlers have served
    productCreatedCounter,  \* products.created.total
    productOperations,      \* products.operations, per attribute set
    last           \* the request served last and what it came to

appVars == <<enabled, mpc, telem, nConstructed, nShutdown, tpShutdown,
             mpShutdown, shutdownCtx, shutdownErr, quit, ctxDone, serverUp, stdout,
             stderr, nalloc, ncalls, productCreatedCounter,
             productOperations, last>>

(***************************************************************************)
(* Part 4 -- state                                                         *)
(***************************************************************************)
VARIABLES
    wpc,           \* position of each goroutine the handler has started
    wreq,          \* the request whose handler started them, 0 if none
    upc,           \* position of each goroutine inside CreateProduct
    written        \* the error responses the handlers have written

extraVars == <<wpc, wreq, upc, written>>

vars == <<trackerVars, storeVars, appVars, extraVars>>

(***************************************************************************)
(* Part 1 -- the request, the route and the routeAwareWriter               *)
(***************************************************************************)
\* The requests the clients send: method, URL path and Host header.
Requests ==
    { [method |-> "GET",  path |-> "/products/42", host |-> "api"],
      [method |-> "POST", path |-> "/nope",        host |-> "api"] }

NoRequest == [method |-> "", path |-> "", host |-> ""]

\* Route table of setupRoutes: the pattern chi records once it has matched
\* the path, "" when no route matches.
RouteOf(path) ==
    IF path = "/products/42" THEN "/products/{id}" ELSE ""

\* HTTPRouteContext: the route it stores, from the URL path and the
\* pattern chi has matched so far
HTTPRouteContext(path, pattern) == IF pattern # "" THEN pattern ELSE path

\* routePattern := w.request.URL.Path; replaced by rctx.RoutePattern() when
\* that is not empty.
routePattern(r) ==
    IF rctxPattern[r] # "" THEN rctxPattern[r] ELSE request[r].path

\* attrs of incrementIfNeeded and of ensureDecrement (the same expression
\* in both places, evaluated when the function runs).
attrs(r) ==
    [method |-> request[r].method,
     route  |-> routePattern(r),
     host   |-> request[r].host]

\* activeRequests.Add(ctx, delta, WithAttributes(attrs...))
Add(log, delta, as) == Append(log, [delta |-> delta, attrs |-> as])

\* Variant of incrementIfNeeded without the test of incrementDone.
incrementAlways(r) == Add(activeRequests[r], 1, attrs(r))

\* incrementIfNeeded: the Add calls of request r after the call
incrementIfNeeded(r) ==
    IF incrementDone[r]
    THEN activeRequests[r]
    ELSE Add(activeRequests[r], 1, attrs(r))

\* Variant of ensureDecrement without the call of incrementIfNeeded for a
\* request that was not incremented.
ensureDecrementOnly(r) ==
    IF decrementDone[r]
    THEN activeRequests[r]
    ELSE Add(activeRequests[r], -1, attrs(r))

\* ensureDecrement: the Add calls of request r after the call
ensureDecrement(r) ==
    IF decrementDone[r]
    THEN activeRequests[r]
    ELSE Add(incrementIfNeeded(r), -1, attrs(r))

\* Variant of WrapsWriter that ignores the error of Int64UpDownCounter.
WrapsWriterIgnoringErr == TRUE

\* ActiveRequestsMiddleware: does the returned middleware wrap the writer?
\* (err != nil returns func(next) { return next })
WrapsWriter == instrumentOK

TrackerInit ==
    /\ instrumentOK \in BOOLEAN
    /\ pc = [r \in Reqs |-> "idle"]
    /\ request = [r \in Reqs |-> NoRequest]
    /\ rctxPattern = [r \in Reqs |-> ""]
    /\ wrapped = [r \in Reqs |-> FALSE]
    /\ incrementDone = [r \in Reqs |-> FALSE]
    /\ decrementDone = [r \in Reqs |-> FALSE]
    /\ activeRequests = [r \in Reqs |-> <<>>]
    /\ nwrites = [r \in Reqs |-> 0]
    /\ cancelled = [r \in Reqs |-> FALSE]
    /\ httpRoute = [r \in Reqs |-> ""]
    /\ completed = [r \in Reqs |-> 0]

(***************************************************************************)
(* Part 1 -- actions                                                       *)
(***************************************************************************)
\* A request arrives and runs down the chain to the tracker: through
\* StructuredLogger, Recoverer, RequestID and HTTPRouteContext, which stores
\* the route it sees.
Arrive(r, q) ==
    /\ pc[r] = "idle"
    /\ pc' = [pc EXCEPT ![r] = "tracker"]
    /\ request' = [request EXCEPT ![r] = q]
    /\ httpRoute' = [httpRoute EXCEPT
                        ![r] = HTTPRouteContext(q.path, rctxPattern[r])]
    /\ UNCHANGED <<storeVars, appVars, extraVars, completed, instrumentOK, rctxPattern, wrapped,
                   incrementDone, decrementDone, activeRequests, nwrites,
                   cancelled>>

\* The handler func of ActiveRequestsMiddleware up to next.ServeHTTP, or
\* next itself when the instrument could not be created.
TrackerEnter(r) ==
    /\ pc[r] = "tracker"
    /\ pc' = [pc EXCEPT ![r] = "handler"]
    /\ wrapped' = [wrapped EXCEPT ![r] = WrapsWriter]
    /\ UNCHANGED <<storeVars, appVars, extraVars, httpRoute, completed, instrumentOK, request, rctxPattern,
                   incrementDone, decrementDone, activeRequests, nwrites,
                   cancelled>>

\* chi matches the request path and records the route pattern.
RouteMatch(r) ==
    /\ pc[r] = "handler"
    /\ rctxPattern[r] = ""
    /\ RouteOf(request[r].path) # ""
    /\ rctxPattern' = [rctxPattern EXCEPT ![r] = RouteOf(request[r].path)]
    /\ UNCHANGED <<storeVars, appVars, extraVars, httpRoute, completed, instrumentOK, pc, request, wrapped,
                   incrementDone, decrementDone, activeRequests, nwrites,
                   cancelled>>

\* Write and WriteHeader of routeAwareWriter: incrementIfNeeded, then the
\* call on the embedded ResponseWriter.
WriterCall(r) ==
    /\ pc[r] = "handler"
    /\ nwrites[r] < MaxWrites
    /\ nwrites' = [nwrites EXCEPT ![r] = @ + 1]
    /\ IF wrapped[r]
       THEN /\ activeRequests' =
                   [activeRequests EXCEPT ![r] = incrementIfNeeded(r)]
            /\ incrementDone' = [incrementDone EXCEPT ![r] = TRUE]
       ELSE UNCHANGED <<activeRequests, incrementDone>>
    /\ UNCHANGED <<storeVars, appVars, extraVars, httpRoute, completed, instrumentOK, pc, request, rctxPattern,
                   wrapped, decrementDone, cancelled>>

\* The downstream handler calls w.WriteHeader(statusCode).
WriteHeader(r) == WriterCall(r)

\* The downstream handler calls w.Write(b).
Write(r) == WriterCall(r)

\* The client disconnects or the deadline passes: r.Context() is cancelled.
\* The handler goroutine keeps running until it returns by itself.
Cancel(r) ==
    /\ pc[r] = "handler"
    /\ ~cancelled[r]
    /\ cancelled' = [cancelled EXCEPT ![r] = TRUE]
    /\ UNCHANGED <<storeVars, appVars, extraVars, httpRoute, completed, instrumentOK, pc, request, rctxPattern,
                   wrapped, incrementDone, decrementDone, activeRequests,
                   nwrites>>

\* next.ServeHTTP returns.
HandlerReturn(r) ==
    /\ pc[r] = "handler"
    /\ pc' = [pc EXCEPT ![r] = IF wrapped[r] THEN "finalize" ELSE "done"]
    /\ UNCHANGED <<storeVars, appVars, extraVars, httpRoute, completed, instrumentOK, request, rctxPattern, wrapped,
                   incrementDone, decrementDone, activeRequests, nwrites,
                   cancelled>>

\* next.ServeHTTP panics: the stack unwinds through the tracker's handler
\* func, which has no deferred call, up to the Recoverer.
HandlerPanic(r) ==
    /\ pc[r] = "handler"
    /\ pc' = [pc EXCEPT ![r] = "panicking"]
    /\ UNCHANGED <<storeVars, appVars, extraVars, httpRoute, completed, instrumentOK, request, rctxPattern, wrapped,
                   incrementDone, decrementDone, activeRequests, nwrites,
                   cancelled>>

\* wrapper.ensureDecrement() after next.ServeHTTP returned.
EnsureDecrement(r) ==
    /\ pc[r] = "finalize"
    /\ activeRequests' = [activeRequests EXCEPT ![r] = ensureDecrement(r)]
    /\ incrementDone' = [incrementDone EXCEPT ![r] = TRUE]
    /\ decrementDone' = [decrementDone EXCEPT ![r] = TRUE]
    /\ pc' = [pc EXCEPT ![r] = "done"]
    /\ UNCHANGED <<storeVars, appVars, extraVars, httpRoute, completed, instrumentOK, request, rctxPattern, wrapped,
                   nwrites, cancelled>>

\* Variant of Recovered with the Recoverer registered before
\* StructuredLogger: the panic unwinds through the logger as well.
RecoveredAboveLogger == "served"

\* setupMiddleware registers StructuredLogger, then the Recoverer: the
\* recovered panic ends in StructuredLogger, where next.ServeHTTP returns.
Recovered == "recovered"

\* chimiddleware.Recoverer, registered before (outside) the tracker,
\* recovers the panic and answers 500 on its own writer.
Recover(r) ==
    /\ pc[r] = "panicking"
    /\ pc' = [pc EXCEPT ![r] = Recovered]
    /\ UNCHANGED <<storeVars, appVars, extraVars, httpRoute, completed, instrumentOK, request, rctxPattern, wrapped,
                   incrementDone, decrementDone, activeRequests, nwrites,
                 cancelled>>

\* StructuredLogger after next.ServeHTTP(ww, r) returned: it writes the
\* record "HTTP request completed" and returns to the server.
LogCompleted(r) ==
    /\ pc[r] \in {"done", "recovered"}
    /\ completed' = [completed EXCEPT ![r] = @ + 1]
    /\ pc' = [pc EXCEPT ![r] = "served"]
    /\ UNCHANGED <<storeVars, appVars, extraVars, httpRoute, instrumentOK,
                   request, rctxPattern, wrapped, incrementDone,
                   decrementDone, activeRequests, nwrites, cancelled>>

(***************************************************************************)
(* Part 2 -- the in-memory ProductRepository                               *)
(***************************************************************************)
\* number of goroutines calling the repository
NumProcs == 2
\* number of distinct product identifiers
NumIds == 2

Procs == 1..NumProcs
Ids == 1..NumIds
\* The *domain.Product values handed to Create: one per identifier, and one
\* more that carries identifier 1 again under another name.
Objs == 1..(NumIds + 1)
\* the nil *domain.Product
Nil == 0

\* Product.ID of the o-th product
IdOf(o) == ((o - 1) % NumIds) + 1

\* the Product struct behind each pointer
InitialHeap == [o \in Objs |-> [ID |-> IdOf(o), Name |-> o]]

EmptyMap == [k \in {} |-> Nil]

NoRet == [op |-> "none", product |-> Nil, products |-> <<>>, err |-> "nil"]

\* Variant of MapAssign that loses the other entries of the map.
MapAssignLossy(m, k, v) == [x \in {k} |-> v]

\* r.products[product.ID] = product
MapAssign(m, k, v) == [x \in (DOMAIN m) \cup {k} |-> IF x = k THEN v ELSE m[x]]

\* Variant of CreateHeap that copies the new product over the struct already
\* stored under the same identifier (*r.products[id] = *product).
CreateHeapInPlace(h, m, o) ==
    IF h[o].ID \in DOMAIN m THEN [h EXCEPT ![m[h[o].ID]] = h[o]] ELSE h

\* Create touches no Product struct: it stores the pointer it was given.
CreateHeap(h, m, o) == h

\* Variant of MapLookup that forgets the "exists" test.
MapLookupNoCheck(m, k) ==
    [op |-> "FindByID", product |-> IF k \in DOMAIN m THEN m[k] ELSE Nil,
     products |-> <<>>, err |-> "nil"]

\* product, exists := r.products[id]
MapLookup(m, k) ==
    IF k \in DOMAIN m
    THEN [op |-> "FindByID", product |-> m[k], products |-> <<>>,
          err |-> "nil"]
    ELSE [op |-> "FindByID", product |-> Nil, products |-> <<>>,
          err |-> "ErrProductNotFound"]

\* sync.RWMutex: Lock first excludes other writers and stops new readers
CanLock == muWriter = 0
\* ... and then waits until the active readers have left
CanEnterWrite == muReaders = {}
\* Variant of CanRLock that lets readers in next to a writer.
CanRLockAlways == TRUE

\* sync.RWMutex: RLock waits while a writer holds or awaits the lock
CanRLock == muWriter = 0

StoreInit ==
    /\ products = EmptyMap
    /\ heap = InitialHeap
    /\ muWriter = 0
    /\ muReaders = {}
    /\ spc = [p \in Procs |-> "idle"]
    /\ arg = [p \in Procs |-> 0]
    /\ iter = [p \in Procs |-> {}]
    /\ acc = [p \in Procs |-> <<>>]
    /\ ret = [p \in Procs |-> NoRet]
    /\ called = {}
    /\ succeeded = {}

\* ---- Create ----
\* Create(ctx, product) is called with a product not handed over before
\* (NewProduct allocates a new struct for every call).
CallCreate(p, o) ==
    /\ spc[p] = "idle"
    /\ o \notin called
    /\ spc' = [spc EXCEPT ![p] = "c_lock"]
    /\ arg' = [arg EXCEPT ![p] = o]
    /\ ret' = [ret EXCEPT ![p] = NoRet]
    /\ called' = called \cup {o}
    /\ UNCHANGED <<trackerVars, extraVars, appVars, products, heap, muWriter, muReaders, iter,
                   acc, succeeded>>

\* r.mu.Lock(), first half: become the pending writer
CreateLock(p) ==
    /\ spc[p] = "c_lock"
    /\ CanLock
    /\ muWriter' = p
    /\ spc' = [spc EXCEPT ![p] = "c_wait"]
    /\ UNCHANGED <<trackerVars, extraVars, appVars, products, heap, muReaders, arg, iter, acc,
                   ret, called, succeeded>>

\* r.mu.Lock(), second half: the readers have drained, Lock returns
CreateLocked(p) ==
    /\ spc[p] = "c_wait"
    /\ CanEnterWrite
    /\ spc' = [spc EXCEPT ![p] = "c_write"]
    /\ UNCHANGED <<trackerVars, extraVars, appVars, products, heap, muWriter, muReaders, arg,
                   iter, acc, ret, called, succeeded>>

\* r.products[product.ID] = product
CreateWrite(p) ==
    /\ spc[p] = "c_write"
    /\ products' = MapAssign(products, heap[arg[p]].ID, arg[p])
    /\ heap' = CreateHeap(heap, products, arg[p])
    /\ spc' = [spc EXCEPT ![p] = "c_ret"]
    /\ UNCHANGED <<trackerVars, extraVars, appVars, muWriter, muReaders, arg, iter, acc, ret,
                   called, succeeded>>

\* return nil, with the deferred r.mu.Unlock()
CreateReturn(p) ==
    /\ spc[p] = "c_ret"
    /\ muWriter' = 0
    /\ ret' = [ret EXCEPT ![p] = [op |-> "Create", product |-> arg[p],
                                   products |-> <<>>, err |-> "nil"]]
    /\ succeeded' = succeeded \cup {arg[p]}
    /\ arg' = [arg EXCEPT ![p] = 0]
    /\ spc' = [spc EXCEPT ![p] = "idle"]
    /\ UNCHANGED <<trackerVars, extraVars, appVars, products, heap, muReaders, iter, acc,
                   called>>

\* ---- FindByID ----
CallFindByID(p, id) ==
    /\ spc[p] = "idle"
    /\ spc' = [spc EXCEPT ![p] = "f_rlock"]
    /\ arg' = [arg EXCEPT ![p] = id]
    /\ ret' = [ret EXCEPT ![p] = NoRet]
    /\ UNCHANGED <<trackerVars, extraVars, appVars, products, heap, muWriter, muReaders, iter,
                   acc, called, succeeded>>

\* r.mu.RLock()
FindByIDRLock(p) ==
    /\ spc[p] = "f_rlock"
    /\ CanRLock
    /\ muReaders' = muReaders \cup {p}
    /\ spc' = [spc EXCEPT ![p] = "f_read"]
    /\ UNCHANGED <<trackerVars, extraVars, appVars, products, heap, muWriter, arg, iter, acc,
                   ret, called, succeeded>>

\* product, exists := r.products[id], and the return of either branch with
\* the deferred r.mu.RUnlock()
FindByIDReturn(p) ==
    /\ spc[p] = "f_read"
    /\ ret' = [ret EXCEPT ![p] = MapLookup(products, arg[p])]
    /\ arg' = [arg EXCEPT ![p] = 0]
    /\ muReaders' = muReaders \ {p}
    /\ spc' = [spc EXCEPT ![p] = "idle"]
    /\ UNCHANGED <<trackerVars, extraVars, appVars, products, heap, muWriter, iter, acc,
                   called, succeeded>>

\* ---- FindAll ----
CallFindAll(p) ==
    /\ spc[p] = "idle"
    /\ spc' = [spc EXCEPT ![p] = "a_rlock"]
    /\ arg' = [arg EXCEPT ![p] = 0]
    /\ ret' = [ret EXCEPT ![p] = NoRet]
    /\ UNCHANGED <<trackerVars, extraVars, appVars, products, heap, muWriter, muReaders, iter,
                   acc, called, succeeded>>

\* r.mu.RLock()
FindAllRLock(p) ==
    /\ spc[p] = "a_rlock"
    /\ CanRLock
    /\ muReaders' = muReaders \cup {p}
    /\ spc' = [spc EXCEPT ![p] = "a_make"]
    /\ UNCHANGED <<trackerVars, extraVars, appVars, products, heap, muWriter, arg, iter, acc,
                   ret, called, succeeded>>

\* products := make([]*domain.Product, 0, len(r.products)); the range loop
\* starts
FindAllMake(p) ==
    /\ spc[p] = "a_make"
    /\ acc' = [acc EXCEPT ![p] = <<>>]
    /\ iter' = [iter EXCEPT ![p] = DOMAIN products]
    /\ spc' = [spc EXCEPT ![p] = "a_loop"]
    /\ UNCHANGED <<trackerVars, extraVars, appVars, products, heap, muWriter, muReaders, arg,
                   ret, called, succeeded>>

\* one iteration of "for _, product := range r.products": the map is
\* visited in an unspecified order
FindAllNext(p, k) ==
    /\ spc[p] = "a_loop"
    /\ k \in iter[p]
    /\ acc' = [acc EXCEPT ![p] = Append(@, products[k])]
    /\ iter' = [iter EXCEPT ![p] = @ \ {k}]
    /\ UNCHANGED <<trackerVars, extraVars, appVars, products, heap, muWriter, muReaders, spc,
                   arg, ret, called, succeeded>>

\* return products, nil, with the deferred r.mu.RUnlock()
FindAllReturn(p) ==
    /\ spc[p] = "a_loop"
    /\ iter[p] = {}
    /\ ret' = [ret EXCEPT ![p] = [op |-> "FindAll", product |-> Nil,
                                   products |-> acc[p], err |-> "nil"]]
    /\ acc' = [acc EXCEPT ![p] = <<>>]
    /\ muReaders' = muReaders \ {p}
    /\ spc' = [spc EXCEPT ![p] = "idle"]
    /\ UNCHANGED <<trackerVars, extraVars, appVars, products, heap, muWriter, arg, iter, called,
                   succeeded>>

\* The record the next step of goroutine p writes through r.logger, <<>>
\* if it writes none: Create logs after the map write, FindByID in either
\* branch after the lookup, FindAll after the loop, each before the
\* deferred unlock runs.
RepoLog(p) ==
    CASE spc[p] = "c_ret" -> <<"Product created in repository">>
      [] spc[p] = "f_read" ->
             IF arg[p] \in DOMAIN products
             THEN <<"Product found in repository">>
             ELSE <<"Product not found">>
      [] spc[p] = "a_loop" /\ iter[p] = {} ->
             <<"Products retrieved from repository">>
      [] OTHER -> <<>>

(***************************************************************************)
(* Part 3 -- the Telemetry, the logger and the request context             *)
(***************************************************************************)
\* number of requests the handlers serve in one run
MaxCalls == 3

\* main's telem before it is assigned
NoTelemetry == [kind |-> "none"]

\* cfg.ServiceName and cfg.Environment as the logger attaches them
CfgAttrs == << <<"service.name", "products-api">>,
              <<"environment", "development">> >>

\* slog.NewJSONHandler(os.Stdout, opts)
NewJSONHandler == [traceContext |-> FALSE, attrs |-> <<>>]

\* &traceContextHandler{handler: jsonHandler}
WrapTraceContext(h) == [traceContext |-> TRUE, attrs |-> h.attrs]

\* Handler.WithAttrs, of the JSON handler and of traceContextHandler, which
\* wraps the inner handler's result again
WithAttrs(h, as) == [traceContext |-> h.traceContext, attrs |-> h.attrs \o as]

\* initLogger: the JSON handler inside a traceContextHandler, .With(...)
initLogger == WithAttrs(WrapTraceContext(NewJSONHandler), CfgAttrs)

\* Variant of NewNoOpTelemetry that builds its providers with the exporters.
NewNoOpTelemetryExporting ==
    [kind |-> "telemetry",
     Logger |-> WithAttrs(NewJSONHandler, CfgAttrs),
     TracerProvider |-> [exporter |-> TRUE],
     MeterProvider |-> [exporter |-> TRUE]]

\* NewNoOpTelemetry: a logger on the bare JSON handler, providers of the SDK
\* without exporter
NewNoOpTelemetry ==
    [kind |-> "telemetry",
     Logger |-> WithAttrs(NewJSONHandler, CfgAttrs),
     TracerProvider |-> [exporter |-> FALSE],
     MeterProvider |-> [exporter |-> FALSE]]

\* NewTelemetry when it returns no error: initLogger, providers exporting
\* over OTLP
NewTelemetry ==
    [kind |-> "telemetry",
     Logger |-> initLogger,
     TracerProvider |-> [exporter |-> TRUE],
     MeterProvider |-> [exporter |-> TRUE]]

\* context.Background(): no span, no route
Background == [TraceID |-> "", SpanID |-> "", route |-> ""]

\* SpanContext.IsValid of trace.SpanFromContext(ctx)
IsValid(ctx) == ctx.TraceID # "" /\ ctx.SpanID # ""

\* WithHTTPRoute
WithHTTPRoute(ctx, route) == [ctx EXCEPT !.route = route]

\* HTTPRouteFromContext
HTTPRouteFromContext(ctx) == ctx.route

\* tracer.Start(ctx, name): the context of a new span of the same trace, or
\* of a new trace when ctx holds none (both providers are SDK providers)
Start(ctx, name) ==
    [ctx EXCEPT !.TraceID = IF ctx.TraceID = "" THEN "trace" ELSE @,
                !.SpanID = name]

\* Variant of Handle that adds the trace fields whatever the span context.
HandleAlways(ctx, as) ==
    as \o << <<"trace_id", ctx.TraceID>>, <<"span_id", ctx.SpanID>> >>
       \o (IF HTTPRouteFromContext(ctx) # ""
           THEN << <<"http.route", HTTPRouteFromContext(ctx)>> >> ELSE <<>>)

\* traceContextHandler.Handle: the attributes of the record it forwards
\* (r.AddAttrs appends)
Handle(ctx, as) ==
    as \o (IF IsValid(ctx)
           THEN << <<"trace_id", ctx.TraceID>>, <<"span_id", ctx.SpanID>> >>
           ELSE <<>>)
       \o (IF HTTPRouteFromContext(ctx) # ""
           THEN << <<"http.route", HTTPRouteFromContext(ctx)>> >> ELSE <<>>)

\* logger.InfoContext(ctx, msg, as...) and its siblings: the record that
\* reaches os.Stdout.  layer, ctx, orig and traceContext are kept next to
\* it to tell where it came from.
Emit(logger, layer, ctx, msg, as) ==
    [msg |-> msg, layer |-> layer, ctx |-> ctx, orig |-> as,
     traceContext |-> logger.traceContext,
     attrs |-> logger.attrs \o
               (IF logger.traceContext THEN Handle(ctx, as) ELSE as)]

\* logger.Info(msg, as...): logs with context.Background()
EmitNoCtx(logger, layer, msg, as) == Emit(logger, layer, Background, msg, as)

(***************************************************************************)
(* Part 3 -- domain, repository calls, ProductService, ProductHandler      *)
(***************************************************************************)
\* err.Error() of the errors the program knows
ErrorText(err) ==
    CASE err = "ErrInvalidProductName" -> "product name is required"
      [] err = "ErrInvalidProductPrice" -> "product price must be positive"
      [] err = "ErrProductNotFound" -> "product not found"
      [] OTHER -> err

\* Variant of Validate without the test of the name.
ValidateNoName(p) == IF p.Price <= 0 THEN "ErrInvalidProductPrice" ELSE "nil"

\* Variant of Validate that lets a price of zero pass (p.Price < 0).
ValidateZeroPrice(p) ==
    IF p.Name = "" THEN "ErrInvalidProductName"
    ELSE IF p.Price < 0 THEN "ErrInvalidProductPrice"
    ELSE "nil"

\* Product.Validate
Validate(p) ==
    IF p.Name = "" THEN "ErrInvalidProductName"
    ELSE IF p.Price <= 0 THEN "ErrInvalidProductPrice"
    ELSE "nil"

\* Variant of NewUUID that returns the same identifier every time.
NewUUIDFixed(n) == 1

\* uuid.New(): an identifier no earlier call has returned
NewUUID(n) == n + 1

\* The two readings of time.Now() in NewProduct, the second never earlier
\* than the first.
Clocks == {<<1, 1>>, <<1, 2>>}

\* domain.NewProduct, called when n products have been allocated and with
\* the two clock readings: the new struct and Validate's error
\* (Description is copied along and decides nothing here)
NewProduct(n, name, price, clock) ==
    LET product == [ID |-> NewUUID(n), Name |-> name, Price |-> price,
                    CreatedAt |-> clock[1], UpdatedAt |-> clock[2]]
    IN  [product |-> product, err |-> Validate(product)]

\* dto.ToProductResponse
ToProductResponse(p) ==
    [id |-> p.ID, name |-> p.Name, price |-> p.Price,
     created_at |-> p.CreatedAt, updated_at |-> p.UpdatedAt]

\* dto.ToProductResponseList
ToProductResponseList(h, ps) ==
    [i \in DOMAIN ps |-> ToProductResponse(h[ps[i]])]

\* ProductRepository.Create as one call (r.mu serialises the calls)
RepoCreate(t, ctx, m, h, o) ==
    LET c == Start(ctx, "ProductRepository.Create")
    IN  [m |-> MapAssign(m, h[o].ID, o),
         h |-> CreateHeap(h, m, o),
         err |-> "nil",
         spans |-> {c.SpanID},
         logs |-> <<Emit(t.Logger, "repository", c,
                         "Product created in repository",
                         << <<"product_id", ToString(h[o].ID)>> >>)>>]

\* ProductRepository.FindByID as one call
RepoFindByID(t, ctx, m, id) ==
    LET c == Start(ctx, "ProductRepository.FindByID")
        found == MapLookup(m, id)
    IN  [product |-> found.product,
         err |-> found.err,
         spans |-> {c.SpanID},
         logs |-> <<Emit(t.Logger, "repository", c,
                         IF found.err = "nil"
                         THEN "Product found in repository"
                         ELSE "Product not found",
                         << <<"product_id", ToString(id)>> >>)>>]

\* ProductRepository.FindAll as one call; ord is the order in which the
\* range loop visits the map
RepoFindAll(t, ctx, m, ord) ==
    LET c == Start(ctx, "ProductRepository.FindAll")
    IN  [products |-> [i \in DOMAIN ord |-> m[ord[i]]],
         err |-> "nil",
         spans |-> {c.SpanID},
         logs |-> <<Emit(t.Logger, "repository", c,
                         "Products retrieved from repository",
                         << <<"count", ToString(Len(ord))>> >>)>>]

\* Variant of ReturnErr that wraps the error (fmt.Errorf("...: %w", err)).
ReturnErrWrapped(err) == IF err = "nil" THEN "nil" ELSE "wrapped: " \o err

\* "return nil, err" of the three use cases
ReturnErr(err) == err

\* What a use case leaves behind.  result is <<>> for a nil result and
\* <<v>> for the value v; m and h are the store after the call.
NotCalled(m, h) ==
    [called |-> FALSE, result |-> <<>>, err |-> "nil", m |-> m, h |-> h,
     storeCalls |-> <<>>, created |-> 0, ops |-> <<>>,
     spanStatus |-> "Unset", spans |-> {}, logs |-> <<>>]

\* ProductService.CreateProduct from the return of repo.Create (rc) on; c
\* is the context of its span, o the new product, creating its first record
CreateProductStored(t, c, o, rc, creating) ==
    IF rc.err # "nil"
    THEN [called |-> TRUE, result |-> <<>>, err |-> ReturnErr(rc.err),
          m |-> rc.m, h |-> rc.h, storeCalls |-> <<"Create">>,
          created |-> 0, ops |-> << <<"create", "failure">> >>,
          spanStatus |-> "Error", spans |-> {c.SpanID} \cup rc.spans,
          logs |-> <<creating>> \o rc.logs \o
                   <<Emit(t.Logger, "service", c, "Failed to store product",
                          << <<"error", ErrorText(rc.err)>> >>)>>]
    ELSE [called |-> TRUE,
          result |-> <<ToProductResponse(rc.h[o])>>, err |-> "nil",
          m |-> rc.m, h |-> rc.h, storeCalls |-> <<"Create">>,
          created |-> 1, ops |-> << <<"create", "success">> >>,
          spanStatus |-> "Ok", spans |-> {c.SpanID} \cup rc.spans,
          logs |-> <<creating>> \o rc.logs \o
                   <<Emit(t.Logger, "service", c,
                          "Product created successfully",
                          << <<"product_id", ToString(rc.h[o].ID)>> >>)>>]

\* ProductService.CreateProduct; n products have been allocated before
CreateProduct(t, ctx, m, h, n, req) ==
    LET c == Start(ctx, "ProductService.CreateProduct")
        np == NewProduct(n, req.Name, req.Price, req.clock)
        creating == Emit(t.Logger, "service", c, "Creating product",
                         << <<"name", req.Name>> >>)
    IN  IF np.err # "nil"
        THEN [called |-> TRUE, result |-> <<>>, err |-> ReturnErr(np.err),
              m |-> m, h |-> h, storeCalls |-> <<>>, created |-> 0,
              ops |-> << <<"create", "failure">> >>,
              spanStatus |-> "Error", spans |-> {c.SpanID},
              logs |-> <<creating,
                         Emit(t.Logger, "service", c,
                              "Failed to create product",
                              << <<"error", ErrorText(np.err)>> >>)>>]
        ELSE CreateProductStored(t, c, n + 1,
                 RepoCreate(t, c, m, [h EXCEPT ![n + 1] = np.product], n + 1),
                 creating)

\* ProductService.GetProductByID from the return of repo.FindByID (rf) on
GetProductByIDFound(t, c, m, h, id, rf, getting) ==
    IF rf.err # "nil"
    THEN [called |-> TRUE, result |-> <<>>, err |-> ReturnErr(rf.err),
          m |-> m, h |-> h, storeCalls |-> <<"FindByID">>,
          created |-> 0, ops |-> << <<"read", "not_found">> >>,
          spanStatus |-> "Error", spans |-> {c.SpanID} \cup rf.spans,
          logs |-> <<getting>> \o rf.logs \o
                   <<Emit(t.Logger, "service", c, "Product not found",
                          << <<"product_id", ToString(id)>> >>)>>]
    ELSE [called |-> TRUE,
          result |-> <<ToProductResponse(h[rf.product])>>,
          err |-> "nil", m |-> m, h |-> h,
          storeCalls |-> <<"FindByID">>, created |-> 0,
          ops |-> << <<"read", "success">> >>,
          spanStatus |-> "Ok", spans |-> {c.SpanID} \cup rf.spans,
          logs |-> <<getting>> \o rf.logs \o
                   <<Emit(t.Logger, "service", c,
                          "Product retrieved successfully",
                          << <<"product_id", ToString(id)>> >>)>>]

\* ProductService.GetProductByID
GetProductByID(t, ctx, m, h, id) ==
    GetProductByIDFound(t, Start(ctx, "ProductService.GetProductByID"),
        m, h, id,
        RepoFindByID(t, Start(ctx, "ProductService.GetProductByID"), m, id),
        Emit(t.Logger, "service",
             Start(ctx, "ProductService.GetProductByID"),
             "Getting product by ID", << <<"product_id", ToString(id)>> >>))

\* ProductService.ListProducts from the return of repo.FindAll (ra) on
ListProductsFound(t, c, m, h, ra, listing) ==
    IF ra.err # "nil"
    THEN [called |-> TRUE, result |-> <<>>, err |-> ReturnErr(ra.err),
          m |-> m, h |-> h, storeCalls |-> <<"FindAll">>,
          created |-> 0, ops |-> << <<"list", "failure">> >>,
          spanStatus |-> "Error", spans |-> {c.SpanID} \cup ra.spans,
          logs |-> <<listing>> \o ra.logs \o
                   <<Emit(t.Logger, "service", c, "Failed to list products",
                          << <<"error", ErrorText(ra.err)>> >>)>>]
    ELSE [called |-> TRUE,
          result |-> <<ToProductResponseList(h, ra.products)>>,
          err |-> "nil", m |-> m, h |-> h,
          storeCalls |-> <<"FindAll">>, created |-> 0,
          ops |-> << <<"list", "success">> >>,
          spanStatus |-> "Ok", spans |-> {c.SpanID} \cup ra.spans,
          logs |-> <<listing>> \o ra.logs \o
                   <<Emit(t.Logger, "service", c,
                          "Products listed successfully",
                          << <<"count", ToString(Len(ra.products))>> >>)>>]

\* ProductService.ListProducts
ListProducts(t, ctx, m, h, ord) ==
    ListProductsFound(t, Start(ctx, "ProductService.ListProducts"), m, h,
        RepoFindAll(t, Start(ctx, "ProductService.ListProducts"), m, ord),
        Emit(t.Logger, "service", Start(ctx, "ProductService.ListProducts"),
             "Listing all products", <<>>))

\* response.JSON
ResponseJSON(status, data) == [status |-> status, body |-> data]

\* response.Error
ResponseError(status, err) ==
    ResponseJSON(status,
        [error |-> CASE status = 404 -> "not_found"
                     [] status = 400 -> "bad_request"
                     [] status = 500 -> "internal_server_error"
                     [] OTHER -> "error",
         message |-> ErrorText(err)])

\* r.Context() as the handlers get it: the span otelhttp started and the
\* route HTTPRouteContext stored; no pattern is matched yet where the
\* middleware of router.Use runs
RequestContext(path) ==
    WithHTTPRoute(Start(Background, "http-server"),
                  HTTPRouteContext(path, ""))

\* ProductHandler.CreateProduct from the return of the use case (uc) on
CreateProductResponse(uc) ==
    [resp |-> IF uc.err # "nil"
              THEN IF uc.err \in {"ErrInvalidProductName",
                                  "ErrInvalidProductPrice"}
                   THEN ResponseError(400, uc.err)
                   ELSE ResponseError(500, uc.err)
              ELSE ResponseJSON(201, uc.result[1]),
     uc |-> uc,
     logs |-> uc.logs]

\* ProductHandler.CreateProduct: the response and what the use case did
HandlerCreateProduct(t, ctx, m, h, n, q) ==
    IF ~q.valid
    THEN [resp |-> ResponseError(400, "invalid character"),
          uc |-> NotCalled(m, h),
          logs |-> <<Emit(t.Logger, "handler", ctx,
                          "Failed to decode request body",
                          << <<"error", "invalid character">> >>)>>]
    ELSE CreateProductResponse(CreateProduct(t, ctx, m, h, n, q))

\* ProductHandler.GetProduct from the return of the use case (uc) on
GetProductResponse(uc) ==
    [resp |-> IF uc.err # "nil"
              THEN IF uc.err = "ErrProductNotFound"
                   THEN ResponseError(404, uc.err)
                   ELSE ResponseError(500, uc.err)
              ELSE ResponseJSON(200, uc.result[1]),
     uc |-> uc,
     logs |-> uc.logs]

\* ProductHandler.GetProduct
HandlerGetProduct(t, ctx, m, h, id) ==
    GetProductResponse(GetProductByID(t, ctx, m, h, id))

\* ProductHandler.ListProducts from the return of the use case (uc) on
ListProductsResponse(uc) ==
    [resp |-> IF uc.err # "nil"
              THEN ResponseError(500, uc.err)
              ELSE ResponseJSON(200, uc.result[1]),
     uc |-> uc,
     logs |-> uc.logs]

\* ProductHandler.ListProducts
HandlerListProducts(t, ctx, m, h, ord) ==
    ListProductsResponse(ListProducts(t, ctx, m, h, ord))

\* the requests of the API: POST /products with a body, GET /products/{id},
\* GET /products; clock holds what time.Now() reads while the request is
\* served
Names == {"", "Laptop"}
Prices == {-1, 0, 5}

CreateRequests ==
    [kind : {"create"}, method : {"POST"}, path : {"/products"},
     pattern : {"/products/"}, valid : {TRUE}, Name : Names, Price : Prices,
     id : {0}, ord : {<<>>}, clock : Clocks]
    \cup {[kind |-> "create", method |-> "POST", path |-> "/products",
           pattern |-> "/products/", valid |-> FALSE, Name |-> "",
           Price |-> 0, id |-> 0, ord |-> <<>>, clock |-> <<0, 0>>]}

GetRequests ==
    {[kind |-> "get", method |-> "GET",
      path |-> "/products/" \o ToString(id), pattern |-> "/products/{id}",
      valid |-> TRUE, Name |-> "", Price |-> 0, id |-> id, ord |-> <<>>,
      clock |-> <<0, 0>>] :
        id \in Objs}

\* the orders in which a range loop may visit the keys of m
Orders(m) ==
    {ord \in [1..Cardinality(DOMAIN m) -> DOMAIN m] :
        \A i, j \in DOMAIN ord : ord[i] = ord[j] => i = j}

ListRequests(m) ==
    {[kind |-> "list", method |-> "GET", path |-> "/products",
      pattern |-> "/products/", valid |-> TRUE, Name |-> "", Price |-> 0,
      id |-> 0, ord |-> ord, clock |-> <<0, 0>>] : ord \in Orders(m)}

\* StructuredLogger, after next.ServeHTTP returned: its r.Context() holds
\* the span of otelhttp and not the route HTTPRouteContext stores further
\* down; the route pattern is the one chi has matched by then.
StructuredLogger(t, q, status) ==
    LET ctx == Start(Background, "http-server")
    IN  Emit(t.Logger, "middleware", ctx, "HTTP request completed",
             << <<"http.request.method", q.method>>,
                <<"http.route", HTTPRouteContext(q.path, q.pattern)>>,
                <<"url.path", q.path>>,
                <<"http.response.status_code", ToString(status)>> >> \o
             (IF IsValid(ctx)
              THEN << <<"trace_id", ctx.TraceID>>,
                      <<"span_id", ctx.SpanID>> >>
              ELSE <<>>))

\* The middleware around the handler: the span of otelhttp ends and is
\* exported with those of the use case, if there is an exporter, and
\* StructuredLogger writes its record.
Middleware(t, ctx, q, out) ==
    [resp |-> out.resp, uc |-> out.uc,
     logs |-> Append(out.logs, StructuredLogger(t, q, out.resp.status)),
     exported |-> IF t.TracerProvider.exporter
                  THEN {ctx.SpanID} \cup out.uc.spans ELSE {}]

\* The router, its middleware and the handler it picks, under the
\* Telemetry t, on the store (m, h) with n products allocated.
Serve(t, m, h, n, q) ==
    Middleware(t, RequestContext(q.path), q,
        CASE q.kind = "create" ->
                 HandlerCreateProduct(t, RequestContext(q.path), m, h, n, q)
          [] q.kind = "get" ->
                 HandlerGetProduct(t, RequestContext(q.path), m, h, q.id)
          [] q.kind = "list" ->
                 HandlerListProducts(t, RequestContext(q.path), m, h, q.ord))

(***************************************************************************)
(* Part 3 -- main                                                          *)
(***************************************************************************)
\* the attribute sets products.operations is incremented with
OpAttrs ==
    {"create", "read", "list"} \X {"success", "failure", "not_found"}

\* no request served yet
NoLast ==
    [request |-> [kind |-> "none"], status |-> 0, body |-> <<>>,
     called |-> FALSE, result |-> <<>>, err |-> "nil", storeCalls |-> <<>>,
     ops |-> <<>>, created |-> 0, spanStatus |-> "Unset", exported |-> {}]

\* no context yet
NoContext == [timeout |-> -1]

\* Variant of ShutdownContext without deadline (context.Background()).
ShutdownContextBackground == [timeout |-> 0]

\* context.WithTimeout(context.Background(), 5*time.Second)
ShutdownContext == [timeout |-> 5]

\* What Shutdown of an SDK provider may come to under ctx: done, an
\* exporter error, the deadline of ctx; without deadline it may block.
ProviderShutdown(ctx) ==
    IF ctx.timeout > 0 THEN {"nil", "exporter error", "deadline exceeded"}
    ELSE {"nil", "exporter error", "blocked"}

AppInit ==
    /\ enabled = TRUE
    /\ mpc = "load"
    /\ telem = NoTelemetry
    /\ nConstructed = 0
    /\ nShutdown = 0
    /\ tpShutdown = FALSE
    /\ mpShutdown = FALSE
    /\ shutdownCtx = NoContext
    /\ shutdownErr = "none"
    /\ quit = FALSE
    /\ ctxDone = FALSE
    /\ serverUp = "down"
    /\ stdout = <<>>
    /\ stderr = <<>>
    /\ nalloc = 0
    /\ ncalls = 0
    /\ productCreatedCounter = 0
    /\ productOperations = [a \in OpAttrs |-> 0]
    /\ last = NoLast

\* cfg := config.LoadConfig(): OTEL_ENABLED is read from the environment
LoadConfig(e) ==
    /\ mpc = "load"
    /\ enabled' = e
    /\ mpc' = "telemetry"
    /\ UNCHANGED <<trackerVars, extraVars, storeVars, telem, nConstructed, nShutdown,
                   tpShutdown, mpShutdown, shutdownCtx, shutdownErr, quit,
                   ctxDone, serverUp, stdout, stderr, nalloc, ncalls,
                   productCreatedCounter, productOperations, last>>

\* main, lines 27-45: NewTelemetry (which may fail: log.Fatalf exits at
\* once) or NewNoOpTelemetry
InitTelemetry(err) ==
    /\ mpc = "telemetry"
    /\ IF enabled
       THEN IF err # "nil"
            THEN /\ mpc' = "fatal"
                 /\ stdout' = <<EmitNoCtx(initLogger, "telemetry",
                                          "Initializing OpenTelemetry", <<>>)>>
                 /\ stderr' = Append(stderr, "Failed to initialize telemetry")
                 /\ UNCHANGED <<telem, nConstructed>>
            ELSE /\ mpc' = "setup"
                 /\ telem' = NewTelemetry
                 /\ nConstructed' = nConstructed + 1
                 /\ stdout' = <<EmitNoCtx(initLogger, "telemetry",
                                          "Initializing OpenTelemetry", <<>>),
                                EmitNoCtx(initLogger, "telemetry",
                                          "Tracer provider initialized successfully", <<>>),
                                EmitNoCtx(initLogger, "telemetry",
                                          "Meter provider initialized successfully", <<>>)>>
                 /\ UNCHANGED stderr
       ELSE /\ err = "nil"
            /\ mpc' = "setup"
            /\ telem' = NewNoOpTelemetry
            /\ nConstructed' = nConstructed + 1
            /\ stdout' = <<EmitNoCtx(NewNoOpTelemetry.Logger, "telemetry",
                                     "Telemetry initialized in no-op mode", <<>>)>>
            /\ stderr' = Append(stderr, "OpenTelemetry export disabled")
    /\ UNCHANGED <<trackerVars, extraVars, storeVars, enabled, nShutdown, tpShutdown,
                   mpShutdown, shutdownCtx, shutdownErr, quit, ctxDone,
                   serverUp, nalloc, ncalls, productCreatedCounter,
                   productOperations, last>>

\* main, lines 47-81: ctx, the repository, service, handler and server, the
\* goroutine of server.Start, signal.Notify
MainSetup ==
    /\ mpc = "setup"
    /\ mpc' = "waiting"
    /\ stdout' = <<EmitNoCtx(telem.Logger, "main", "Starting Products API",
                             <<>>)>>
    /\ UNCHANGED <<trackerVars, extraVars, storeVars, enabled, telem, nConstructed,
                   nShutdown, tpShutdown, mpShutdown, shutdownCtx,
                   shutdownErr, quit, ctxDone, serverUp, stderr, nalloc,
                   ncalls, productCreatedCounter, productOperations, last>>

\* the process is running: neither returned from main nor exited
Running == mpc \in {"waiting", "deferred", "sd_meter", "sd_return"}

\* the goroutine of line 72: server.Start() listens, or returns an error,
\* which is logged and cancels ctx
ServerStart(ok) ==
    /\ Running
    /\ serverUp = "down"
    /\ serverUp' = IF ok THEN "up" ELSE "failed"
    /\ ctxDone' = IF ok THEN ctxDone ELSE TRUE
    /\ stdout' = <<EmitNoCtx(telem.Logger, "server", "Starting HTTP server",
                             <<>>)>> \o
                  IF ok THEN <<>>
                  ELSE <<EmitNoCtx(telem.Logger, "main", "Server error",
                                   << <<"error", "listen">> >>)>>
    /\ UNCHANGED <<trackerVars, extraVars, storeVars, enabled, mpc, telem, nConstructed,
                   nShutdown, tpShutdown, mpShutdown, shutdownCtx,
                   shutdownErr, quit, stderr, nalloc, ncalls,
                   productCreatedCounter, productOperations, last>>

\* SIGINT or SIGTERM is delivered to the quit channel
Signal ==
    /\ mpc = "waiting"
    /\ ~quit
    /\ quit' = TRUE
    /\ UNCHANGED <<trackerVars, extraVars, storeVars, enabled, mpc, telem, nConstructed,
                   nShutdown, tpShutdown, mpShutdown, shutdownCtx,
                   shutdownErr, ctxDone, serverUp, stdout, stderr, nalloc,
                   ncalls, productCreatedCounter, productOperations, last>>

\* the deferred shutdown of lines 34-40 is registered in the branch of
\* cfg.OTLP.Enabled only
ShutdownDeferred == enabled

\* main, lines 83-91: a case of the select is ready, "Server stopped", main
\* returns and its deferred cancel() runs; then the deferred shutdown, if
\* there is one, else the process exits
MainSelect(c) ==
    /\ mpc = "waiting"
    /\ \/ c = "quit" /\ quit
       \/ c = "ctx.Done" /\ ctxDone
    /\ stdout' = <<EmitNoCtx(telem.Logger, "main",
                             IF c = "quit" THEN "Shutting down server..."
                             ELSE "Context cancelled, shutting down...", <<>>),
                   EmitNoCtx(telem.Logger, "main", "Server stopped", <<>>)>>
    /\ ctxDone' = TRUE
    /\ mpc' = IF ShutdownDeferred THEN "deferred" ELSE "exited"
    /\ UNCHANGED <<trackerVars, extraVars, storeVars, enabled, telem, nConstructed,
                   nShutdown, tpShutdown, mpShutdown, shutdownCtx,
                   shutdownErr, quit, serverUp, stderr, nalloc, ncalls,
                   productCreatedCounter, productOperations, last>>

\* The deferred func of lines 34-40 calls telem.Shutdown(shutdownCtx);
\* Telemetry.Shutdown up to the return of TracerProvider.Shutdown, whose
\* error ends it
ShutdownTracer(res) ==
    /\ mpc = "deferred"
    /\ res \in ProviderShutdown(ShutdownContext)
    /\ shutdownCtx' = ShutdownContext
    /\ nShutdown' = nShutdown + 1
    /\ tpShutdown' = TRUE
    /\ stdout' = <<EmitNoCtx(telem.Logger, "telemetry",
                             "Shutting down OpenTelemetry", <<>>)>> \o
                  IF res \in {"nil", "blocked"} THEN <<>>
                  ELSE <<EmitNoCtx(telem.Logger, "telemetry",
                                   "Failed to shutdown tracer provider",
                                   << <<"error", res>> >>)>>
    /\ shutdownErr' = IF res \in {"nil", "blocked"} THEN shutdownErr ELSE res
    /\ mpc' = CASE res = "nil" -> "sd_meter"
                [] res = "blocked" -> "sd_blocked"
                [] OTHER -> "sd_return"
    /\ UNCHANGED <<trackerVars, extraVars, storeVars, enabled, telem, nConstructed,
                   mpShutdown, quit, ctxDone, serverUp, stderr, nalloc,
                   ncalls, productCreatedCounter, productOperations, last>>

\* Telemetry.Shutdown from MeterProvider.Shutdown to its return
ShutdownMeter(res) ==
    /\ mpc = "sd_meter"
    /\ res \in ProviderShutdown(shutdownCtx)
    /\ mpShutdown' = TRUE
    /\ stdout' = IF res = "blocked" THEN <<>>
                 ELSE IF res = "nil"
                 THEN <<EmitNoCtx(telem.Logger, "telemetry",
                                  "OpenTelemetry shutdown successfully", <<>>)>>
                 ELSE <<EmitNoCtx(telem.Logger, "telemetry",
                                  "Failed to shutdown meter provider",
                                  << <<"error", res>> >>)>>
    /\ shutdownErr' = IF res = "blocked" THEN shutdownErr ELSE res
    /\ mpc' = IF res = "blocked" THEN "sd_blocked" ELSE "sd_return"
    /\ UNCHANGED <<trackerVars, extraVars, storeVars, enabled, telem, nConstructed,
                   nShutdown, tpShutdown, shutdownCtx, quit, ctxDone,
                   serverUp, stderr, nalloc, ncalls, productCreatedCounter,
                   productOperations, last>>

\* the deferred func after telem.Shutdown returned: an error is printed
\* with log.Printf; the process exits
ShutdownReturn ==
    /\ mpc = "sd_return"
    /\ stderr' = IF shutdownErr # "nil"
                 THEN Append(stderr, "Error shutting down telemetry")
                 ELSE stderr
    /\ mpc' = "exited"
    /\ UNCHANGED <<trackerVars, extraVars, storeVars, enabled, telem, nConstructed,
                   nShutdown, tpShutdown, mpShutdown, shutdownCtx,
                   shutdownErr, quit, ctxDone, serverUp, stdout, nalloc,
                   ncalls, productCreatedCounter, productOperations, last>>

\* Variant of CounterAdd that records the successful outcomes only.
CounterAddSuccessOnly(counter, adds) ==
    [a \in DOMAIN counter |->
        counter[a] + Cardinality({i \in DOMAIN adds :
                                     adds[i] = a /\ a[2] = "success"})]

\* counter.Add(ctx, 1, attrs) for each attribute set of adds
CounterAdd(counter, adds) ==
    [a \in DOMAIN counter |->
        counter[a] + Cardinality({i \in DOMAIN adds : adds[i] = a})]

\* The server serves request q: the router, the handler, the use case and
\* the repository call it makes.
ServeHTTP(q) ==
    /\ Running
    /\ serverUp = "up"
    /\ ncalls < MaxCalls
    /\ (q.kind = "create" /\ q.valid) => nalloc + 1 \in Objs
    /\ \E out \in {Serve(telem, products, heap, nalloc, q)} :
           /\ products' = out.uc.m
           /\ heap' = out.uc.h
           /\ nalloc' = IF q.kind = "create" /\ q.valid
                        THEN nalloc + 1 ELSE nalloc
           /\ productCreatedCounter' = productCreatedCounter + out.uc.created
           /\ productOperations' = CounterAdd(productOperations, out.uc.ops)
           /\ stdout' = out.logs
           /\ last' = [request |-> q,
                       status |-> out.resp.status,
                       body |-> out.resp.body,
                       called |-> out.uc.called,
                       result |-> out.uc.result,
                       err |-> out.uc.err,
                       storeCalls |-> out.uc.storeCalls,
                       ops |-> out.uc.ops,
                       created |-> out.uc.created,
                       spanStatus |-> out.uc.spanStatus,
                       exported |-> out.exported]
    /\ ncalls' = ncalls + 1
    /\ UNCHANGED <<trackerVars, extraVars, muWriter, muReaders, spc, arg, iter, acc,
                   ret, called, succeeded, enabled, mpc, telem,
                   nConstructed, nShutdown, tpShutdown, mpShutdown,
                   shutdownCtx, shutdownErr, quit, ctxDone, serverUp,
                   stderr>>

\* POST /products
PostProducts(q) == q \in CreateRequests /\ ServeHTTP(q)

\* GET /products/{id}
GetProduct(q) == q \in GetRequests /\ ServeHTTP(q)

\* GET /products
GetProducts(q) == q \in ListRequests(products) /\ ServeHTTP(q)

(***************************************************************************)
(* Part 4 -- goroutines on one response writer                             *)
(***************************************************************************)
\* the two goroutines a handler starts to write its response
Writers == {1, 2}

\* number of error responses followed in one run
MaxErrors == 3

ExtraInit ==
    /\ wpc = [g \in Writers |-> "idle"]
    /\ wreq = 0
    /\ upc = [p \in Procs |-> "idle"]
    /\ written = <<>>

\* The handler of request r starts goroutines that write to its response
\* writer, the routeAwareWriter if the tracker wraps.
GoStart(r) ==
    /\ pc[r] = "handler"
    /\ wreq = 0
    /\ wreq' = r
    /\ wpc' = [g \in Writers |-> "call"]
    /\ UNCHANGED <<trackerVars, storeVars, appVars, upc, written>>

\* Goroutine g calls Write or WriteHeader; incrementIfNeeded reads
\* w.incrementDone (no lock guards the field).
WriterTest(g) ==
    /\ wpc[g] = "call"
    /\ wpc' = [wpc EXCEPT ![g] = IF wrapped[wreq] /\ ~incrementDone[wreq]
                                 THEN "set" ELSE "write"]
    /\ UNCHANGED <<trackerVars, storeVars, appVars, wreq, upc, written>>

\* w.incrementDone = true
WriterSet(g) ==
    /\ wpc[g] = "set"
    /\ incrementDone' = [incrementDone EXCEPT ![wreq] = TRUE]
    /\ wpc' = [wpc EXCEPT ![g] = "add"]
    /\ UNCHANGED <<storeVars, appVars, instrumentOK, pc, request,
                   rctxPattern, wrapped, decrementDone, activeRequests,
                   nwrites, cancelled, httpRoute, completed, wreq, upc,
                   written>>

\* the attributes and w.activeRequests.Add(ctx, 1, ...)
WriterAdd(g) ==
    /\ wpc[g] = "add"
    /\ activeRequests' = [activeRequests EXCEPT
                             ![wreq] = Add(@, 1, attrs(wreq))]
    /\ wpc' = [wpc EXCEPT ![g] = "write"]
    /\ UNCHANGED <<storeVars, appVars, instrumentOK, pc, request,
                   rctxPattern, wrapped, incrementDone, decrementDone,
                   nwrites, cancelled, httpRoute, completed, wreq, upc,
                   written>>

\* the call on the embedded ResponseWriter
WriterWrite(g) ==
    /\ wpc[g] = "write"
    /\ nwrites' = [nwrites EXCEPT ![wreq] = @ + 1]
    /\ wpc' = [wpc EXCEPT ![g] = "done"]
    /\ UNCHANGED <<storeVars, appVars, instrumentOK, pc, request,
                   rctxPattern, wrapped, incrementDone, decrementDone,
                   activeRequests, cancelled, httpRoute, completed, wreq,
                   upc, written>>

\* The handler has waited for its goroutines and returns:
\* next.ServeHTTP(wrapper, r) returns in the tracker.
GoJoin ==
    /\ wreq # 0
    /\ \A g \in Writers : wpc[g] = "done"
    /\ pc' = [pc EXCEPT ![wreq] = IF wrapped[wreq] THEN "finalize"
                                  ELSE "done"]
    /\ wpc' = [g \in Writers |-> "idle"]
    /\ wreq' = 0
    /\ UNCHANGED <<storeVars, appVars, instrumentOK, request, rctxPattern,
                   wrapped, incrementDone, decrementDone, activeRequests,
                   nwrites, cancelled, httpRoute, completed, upc, written>>

(***************************************************************************)
(* Part 4 -- goroutines in ProductService.CreateProduct                    *)
(***************************************************************************)
\* CreateProduct is called in goroutine p, up to the return of NewProduct:
\* an invalid product is counted as a failure and the call returns.
UseCaseCall(p, name, price, clock) ==
    /\ upc[p] = "idle"
    /\ ncalls < MaxCalls
    /\ ncalls' = ncalls + 1
    /\ \E np \in {NewProduct(nalloc, name, price, clock)} :
           IF np.err # "nil"
           THEN /\ productOperations' =
                       CounterAdd(productOperations,
                                  << <<"create", "failure">> >>)
                /\ UNCHANGED <<heap, nalloc, arg, upc>>
           ELSE /\ nalloc + 1 \in Objs
                /\ heap' = [heap EXCEPT ![nalloc + 1] = np.product]
                /\ nalloc' = nalloc + 1
                /\ arg' = [arg EXCEPT ![p] = nalloc + 1]
                /\ upc' = [upc EXCEPT ![p] = "u_store"]
                /\ UNCHANGED productOperations
    /\ UNCHANGED <<trackerVars, products, muWriter, muReaders, spc, iter,
                   acc, ret, called, succeeded, enabled, mpc, telem,
                   nConstructed, nShutdown, tpShutdown, mpShutdown,
                   shutdownCtx, shutdownErr, quit, ctxDone, serverUp,
                   stdout, stderr, productCreatedCounter, last, wpc, wreq,
                   written>>

\* s.repo.Create(ctx, product), one call under r.mu
UseCaseStore(p) ==
    /\ upc[p] = "u_store"
    /\ \E rc \in {RepoCreate(NewTelemetry, Background, products, heap,
                              arg[p])} :
           /\ products' = rc.m
           /\ heap' = rc.h
    /\ upc' = [upc EXCEPT ![p] = "u_count"]
    /\ UNCHANGED <<trackerVars, appVars, muWriter, muReaders, spc, arg,
                   iter, acc, ret, called, succeeded, wpc, wreq, written>>

\* s.productCreatedCounter.Add(ctx, 1), the operation counter, and the
\* return of the response
UseCaseCount(p) ==
    /\ upc[p] = "u_count"
    /\ productCreatedCounter' = productCreatedCounter + 1
    /\ productOperations' =
           CounterAdd(productOperations, << <<"create", "success">> >>)
    /\ arg' = [arg EXCEPT ![p] = 0]
    /\ upc' = [upc EXCEPT ![p] = "idle"]
    /\ UNCHANGED <<trackerVars, products, heap, muWriter, muReaders, spc,
                   iter, acc, ret, called, succeeded, enabled, mpc, telem,
                   nConstructed, nShutdown, tpShutdown, mpShutdown,
                   shutdownCtx, shutdownErr, quit, ctxDone, serverUp,
                   stdout, stderr, nalloc, ncalls, last, wpc, wreq,
                   written>>

(***************************************************************************)
(* Part 4 -- the error responses of the handlers                           *)
(***************************************************************************)
\* the text of an error of a repository behind domain.ProductRepository
InternalError == "dial tcp 10.0.0.5:5432: connect: connection refused"

\* what a use case hands to the handler when it fails with err
Failed(err) ==
    [NotCalled(products, heap) EXCEPT !.called = TRUE, !.err = err]

\* CreateProduct: the body does not decode
DecodeError ==
    /\ Len(written) < MaxErrors
    /\ written' = Append(written,
                         [handler |-> "create", err |-> "invalid character",
                          resp |-> ResponseError(400, "invalid character")])
    /\ UNCHANGED <<trackerVars, storeVars, appVars, wpc, wreq, upc>>

\* CreateProduct: h.service.CreateProduct returns err
CreateProductError(err) ==
    /\ Len(written) < MaxErrors
    /\ written' = Append(written,
                         [handler |-> "create", err |-> err,
                          resp |-> CreateProductResponse(Failed(err)).resp])
    /\ UNCHANGED <<trackerVars, storeVars, appVars, wpc, wreq, upc>>

\* GetProduct: h.service.GetProductByID returns err
GetProductError(err) ==
    /\ Len(written) < MaxErrors
    /\ written' = Append(written,
                         [handler |-> "get", err |-> err,
                          resp |-> GetProductResponse(Failed(err)).resp])
    /\ UNCHANGED <<trackerVars, storeVars, appVars, wpc, wreq, upc>>

\* ListProducts: h.service.ListProducts returns err
ListProductsError(err) ==
    /\ Len(written) < MaxErrors
    /\ written' = Append(written,
                         [handler |-> "list", err |-> err,
                          resp |-> ListProductsResponse(Failed(err)).resp])
    /\ UNCHANGED <<trackerVars, storeVars, appVars, wpc, wreq, upc>>

(***************************************************************************)
(* Specifications                                                          *)
(***************************************************************************)
Init == TrackerInit /\ StoreInit /\ AppInit /\ ExtraInit

NextTracker ==
    \/ \E r \in Reqs, q \in Requests : Arrive(r, q)
    \/ \E r \in Reqs : TrackerEnter(r)
    \/ \E r \in Reqs : RouteMatch(r)
    \/ \E r \in Reqs : WriteHeader(r)
    \/ \E r \in Reqs : Write(r)
    \/ \E r \in Reqs : Cancel(r)
    \/ \E r \in Reqs : HandlerReturn(r)
    \/ \E r \in Reqs : HandlerPanic(r)
    \/ \E r \in Reqs : EnsureDecrement(r)
    \/ \E r \in Reqs : Recover(r)

NextStore ==
    \/ \E p \in Procs, o \in Objs : CallCreate(p, o)
    \/ \E p \in Procs : CreateLock(p)
    \/ \E p \in Procs : CreateLocked(p)
    \/ \E p \in Procs : CreateWrite(p)
    \/ \E p \in Procs : CreateReturn(p)
    \/ \E p \in Procs, id \in Ids : CallFindByID(p, id)
    \/ \E p \in Procs : FindByIDRLock(p)
    \/ \E p \in Procs : FindByIDReturn(p)
    \/ \E p \in Procs : CallFindAll(p)
    \/ \E p \in Procs : FindAllRLock(p)
    \/ \E p \in Procs : FindAllMake(p)
    \/ \E p \in Procs, k \in Ids : FindAllNext(p, k)
    \/ \E p \in Procs : FindAllReturn(p)

\* the middleware chain serving requests
SpecTracker == Init /\ [][NextTracker]_vars

\* goroutines calling the repository
InitStore == Init /\ instrumentOK

SpecStore == InitStore /\ [][NextStore]_vars

NextApp ==
    \/ \E e \in BOOLEAN : LoadConfig(e)
    \/ \E err \in {"nil", "exporter error"} : InitTelemetry(err)
    \/ MainSetup
    \/ \E ok \in BOOLEAN : ServerStart(ok)
    \/ Signal
    \/ \E c \in {"quit", "ctx.Done"} : MainSelect(c)
    \/ \E res \in {"nil", "exporter error", "deadline exceeded", "blocked"} :
          ShutdownTracer(res)
    \/ \E res \in {"nil", "exporter error", "deadline exceeded", "blocked"} :
          ShutdownMeter(res)
    \/ ShutdownReturn
    \/ \E q \in CreateRequests : PostProducts(q)
    \/ \E q \in GetRequests : GetProduct(q)
    \/ \E q \in ListRequests(products) : GetProducts(q)

\* the steps of main and of its deferred shutdown
NextMain ==
    \/ \E e \in BOOLEAN : LoadConfig(e)
    \/ \E err \in {"nil", "exporter error"} : InitTelemetry(err)
    \/ MainSetup
    \/ \E c \in {"quit", "ctx.Done"} : MainSelect(c)
    \/ \E res \in {"nil", "exporter error", "deadline exceeded", "blocked"} :
          ShutdownTracer(res)
    \/ \E res \in {"nil", "exporter error", "deadline exceeded", "blocked"} :
          ShutdownMeter(res)
    \/ ShutdownReturn

\* the middleware chain up to StructuredLogger; the cancellation of the
\* request context, which no middleware reads, is left out
NextChain ==
    \/ \E r \in Reqs, q \in Requests : Arrive(r, q)
    \/ \E r \in Reqs : TrackerEnter(r)
    \/ \E r \in Reqs : RouteMatch(r)
    \/ \E r \in Reqs : WriteHeader(r)
    \/ \E r \in Reqs : Write(r)
    \/ \E r \in Reqs : HandlerReturn(r)
    \/ \E r \in Reqs : HandlerPanic(r)
    \/ \E r \in Reqs : EnsureDecrement(r)
    \/ \E r \in Reqs : Recover(r)
    \/ \E r \in Reqs : LogCompleted(r)

SpecChain == Init /\ [][NextChain]_vars

\* a handler that writes its response from several goroutines
NextRace ==
    \/ \E r \in Reqs, q \in Requests : Arrive(r, q)
    \/ \E r \in Reqs : TrackerEnter(r)
    \/ \E r \in Reqs : RouteMatch(r)
    \/ \E r \in Reqs : GoStart(r)
    \/ \E g \in Writers : WriterTest(g)
    \/ \E g \in Writers : WriterSet(g)
    \/ \E g \in Writers : WriterAdd(g)
    \/ \E g \in Writers : WriterWrite(g)
    \/ GoJoin
    \/ \E r \in Reqs : EnsureDecrement(r)
    \/ \E r \in Reqs : LogCompleted(r)

SpecRace == Init /\ [][NextRace]_vars

\* goroutines that call CreateProduct at the same time
NextCreate ==
    \/ \E p \in Procs, name \in Names, price \in Prices, clock \in Clocks :
          UseCaseCall(p, name, price, clock)
    \/ \E p \in Procs : UseCaseStore(p)
    \/ \E p \in Procs : UseCaseCount(p)

SpecCreate == InitStore /\ [][NextCreate]_vars

\* the handlers answering failed use cases
NextErrors ==
    \/ DecodeError
    \/ \E err \in {"ErrInvalidProductName", "ErrInvalidProductPrice",
                    InternalError} : CreateProductError(err)
    \/ \E err \in {"ErrProductNotFound", InternalError} : GetProductError(err)
    \/ \E err \in {InternalError} : ListProductsError(err)

SpecErrors == InitStore /\ [][NextErrors]_vars

\* the process: main, the server goroutine and the requests it serves
SpecApp == InitStore /\ [][NextApp]_vars

\* ... with a scheduler that lets main run whenever it can
SpecAppFair == SpecApp /\ WF_vars(NextMain)

(***************************************************************************)
(* Properties of the tracker (checked under SpecTracker)                   *)
(***************************************************************************)
\* number of Add calls of request r with the given delta
Adds(r, d) ==
    Cardinality({i \in DOMAIN activeRequests[r] :
                    activeRequests[r][i].delta = d})

\* what request r contributes to http.server.active_requests
ActiveCount(r) == Adds(r, 1) - Adds(r, -1)

\* the chain is through with request r
Finished(r) == pc[r] \in {"done", "recovered"}

\* C1: every request handled by the wrapping middleware gets exactly one +1
\* and exactly one -1 on the active-request counter, however often the
\* handler wrote and whenever the route resolved.
C1_ExactlyOnePair ==
    \A r \in Reqs :
        (Finished(r) /\ wrapped[r]) => (Adds(r, 1) = 1 /\ Adds(r, -1) = 1)

\* C2: the attribute set of a request's +1 is identical to the attribute
\* set of its -1.
C2_SameAttributes ==
    \A r \in Reqs : \A i, j \in DOMAIN activeRequests[r] :
        (activeRequests[r][i].delta = 1 /\ activeRequests[r][j].delta = -1)
            => activeRequests[r][i].attrs = activeRequests[r][j].attrs

\* C3: a request whose handler wrote (so was incremented) and then panicked,
\* the panic being recovered by the Recoverer, got its decrement exactly once.
C3_DecrementAfterPanic ==
    \A r \in Reqs :
        (pc[r] = "recovered" /\ incrementDone[r]) => decrementDone[r]

\* C4: once the handler of a request has stopped, cancelled or not, the
\* request is no longer counted as active.
C4_NotActiveForever ==
    \A r \in Reqs : Finished(r) => ActiveCount(r) = 0

\* C5: when the instrument could not be created the middleware is a
\* pass-through: the handler gets the original writer and no increment or
\* decrement is ever recorded.
C5_PassThrough ==
    ~instrumentOK =>
        \A r \in Reqs :
            /\ ~wrapped[r]
            /\ activeRequests[r] = <<>>
            /\ ~incrementDone[r] /\ ~decrementDone[r]

\* C5 witness: without the instrument a request was served to its end, the
\* handler's writes having reached the client.
C5_Witness ==
    \E r \in Reqs : ~instrumentOK /\ pc[r] = "done" /\ nwrites[r] = MaxWrites

(***************************************************************************)
(* Properties of the repository (checked under SpecStore)                  *)
(***************************************************************************)
\* goroutine p is between Lock and Unlock of Create
InWrite(p) == spc[p] \in {"c_write", "c_ret"}

\* goroutine p is between RLock and RUnlock of FindByID or FindAll
InRead(p) == spc[p] \in {"f_read", "a_make", "a_loop"}

\* goroutine p is inside a call of Create
InCreate(p) == spc[p] \in {"c_lock", "c_wait", "c_write", "c_ret"}

\* the elements of a sequence
Elems(seq) == {seq[i] : i \in DOMAIN seq}

\* the products of S carry pairwise distinct identifiers
DistinctIds(S) == \A a, b \in S : heap[a].ID = heap[b].ID => a = b

\* C6: a Create of an identifier that is already present fails and leaves
\* the stored record alone: no two Creates of one identifier both return
\* nil, and the record of a successful Create stays under its identifier.
C6_DuplicateKeyRejected ==
    /\ \A a, b \in succeeded : IdOf(a) = IdOf(b) => a = b
    /\ \A o \in succeeded :
          IdOf(o) \in DOMAIN products /\ products[IdOf(o)] = o

\* the products the map points to
Stored == {products[k] : k \in DOMAIN products}

\* C7: while all Create calls made so far carried distinct identifiers:
\* once none is running the store holds exactly one record per successful
\* Create, each found under its identifier with the fields passed in, and
\* a FindAll returns exactly the products of the Creates that have
\* returned, each once.
C7_ConcurrentCreates ==
    /\ [](DistinctIds(called) =>
            ((\A p \in Procs : ~InCreate(p)) =>
                /\ DOMAIN products = {IdOf(o) : o \in succeeded}
                /\ Cardinality(DOMAIN products) = Cardinality(succeeded)
                /\ \A o \in succeeded :
                      /\ MapLookup(products, IdOf(o)).product = o
                      /\ MapLookup(products, IdOf(o)).err = "nil"
                      /\ heap[o] = InitialHeap[o]))
    /\ [][\A p \in Procs :
            (DistinctIds(called) /\ spc[p] = "a_loop" /\ spc'[p] = "idle") =>
                /\ Elems(ret'[p].products) = succeeded
                /\ Len(ret'[p].products) = Cardinality(succeeded)]_vars

\* C7 witness: two Creates with distinct identifiers have returned, none is
\* running, and a FindAll made afterwards returned both products.
C7_Witness ==
    /\ DistinctIds(called)
    /\ Cardinality(succeeded) >= 2
    /\ \A p \in Procs : ~InCreate(p)
    /\ \E p \in Procs :
          ret[p].op = "FindAll" /\ Elems(ret[p].products) = succeeded

\* C8: a Create inside its critical section excludes every other Create and
\* every FindByID and FindAll from theirs.
C8_ReadersWriterExclusion ==
    \A p, q \in Procs :
        p # q => ~(InWrite(p) /\ (InWrite(q) \/ InRead(q)))

\* C8 witness: after a Create went through its critical section, two reads
\* are inside their critical sections at the same time.
C8_Witness ==
    /\ succeeded # {}
    /\ \E p, q \in Procs : p # q /\ InRead(p) /\ InRead(q)

\* C9: what FindAll returns is the content the map has while the read
\* lock is held, and no later step of another goroutine (a Create in
\* particular) changes the returned sequence or a Product it points to.
C9_FindAllSnapshot ==
    [][\A p \in Procs :
          /\ (spc[p] = "a_loop" /\ spc'[p] = "idle") =>
                /\ Elems(ret'[p].products) = Stored
                /\ Len(ret'[p].products) = Cardinality(DOMAIN products)
          /\ (ret[p].op = "FindAll" /\ spc'[p] = "idle") =>
                /\ ret'[p] = ret[p]
                /\ \A o \in Elems(ret[p].products) : heap'[o] = heap[o]]_vars

\* C9 witness: FindAll returned a product, and a Create that took place
\* after the snapshot has added another one to the map.
C9_Witness ==
    \E p \in Procs :
        /\ ret[p].op = "FindAll"
        /\ ret[p].products # <<>>
        /\ Cardinality(DOMAIN products) > Len(ret[p].products)

\* C10: FindByID returns the stored record when a Create of the identifier
\* returned before, ErrProductNotFound and nil otherwise, and no step of the
\* call changes the store.
C10_FindByID ==
    [][\A p \in Procs :
          /\ (spc[p] = "f_read" /\ spc'[p] = "idle") =>
                IF \E o \in succeeded : IdOf(o) = arg[p]
                THEN /\ ret'[p].err = "nil"
                     /\ ret'[p].product = products[arg[p]]
                     /\ ret'[p].product \in succeeded
                     /\ heap[ret'[p].product].ID = arg[p]
                ELSE /\ ret'[p].err = "ErrProductNotFound"
                     /\ ret'[p].product = Nil
          /\ (spc[p] \in {"f_rlock", "f_read"} /\ spc'[p] # spc[p]) =>
                (products' = products /\ heap' = heap)]_vars

\* C10 witness: one FindByID has returned a stored product and another one
\* ErrProductNotFound.
C10_Witness ==
    \E p, q \in Procs :
        /\ ret[p].op = "FindByID" /\ ret[p].err = "nil"
        /\ ret[p].product # Nil
        /\ ret[q].op = "FindByID" /\ ret[q].err = "ErrProductNotFound"

(***************************************************************************)
(* Properties of the process (checked under SpecApp and SpecAppFair)       *)
(***************************************************************************)
\* a request has been served in this step
Served == ncalls' = ncalls + 1

\* the Telemetry of the other mode
OtherMode == IF enabled THEN NewNoOpTelemetry ELSE NewTelemetry

Keys(as) == {as[i][1] : i \in DOMAIN as}

\* the attributes of a written record behind those of logger.With and
\* those of the log call
Added(rec) ==
    SubSeq(rec.attrs, Len(CfgAttrs) + Len(rec.orig) + 1, Len(rec.attrs))

\* C12: a record that went through traceContextHandler is written with the
\* fields it was logged with, followed by trace_id and span_id of the
\* context's span exactly when that span context is valid, and by
\* http.route exactly when the context holds a non-empty route; logged
\* without a request context it gets no field added.
C12_TraceContextFields ==
    \A i \in DOMAIN stdout :
        LET rec == stdout[i]
            valid == rec.ctx.TraceID # "" /\ rec.ctx.SpanID # ""
        IN  rec.traceContext =>
              /\ SubSeq(rec.attrs, 1, Len(CfgAttrs) + Len(rec.orig))
                    = CfgAttrs \o rec.orig
              /\ Keys(Added(rec)) \subseteq {"trace_id", "span_id",
                                            "http.route"}
              /\ ("trace_id" \in Keys(Added(rec))) = valid
              /\ ("span_id" \in Keys(Added(rec))) = valid
              /\ ("http.route" \in Keys(Added(rec))) = (rec.ctx.route # "")
              /\ \A k \in DOMAIN Added(rec) :
                    Added(rec)[k][2] =
                        CASE Added(rec)[k][1] = "trace_id" -> rec.ctx.TraceID
                          [] Added(rec)[k][1] = "span_id" -> rec.ctx.SpanID
                          [] OTHER -> rec.ctx.route
              /\ (rec.ctx = Background => Added(rec) = <<>>)

\* C12 witness: a request was logged through traceContextHandler by the
\* use case, with a span and a route in the context, and by the logging
\* middleware, with a span and no route in the context.
C12_Witness ==
    \E i, j \in DOMAIN stdout :
        /\ stdout[i].traceContext /\ stdout[j].traceContext
        /\ stdout[i].layer = "service" /\ stdout[i].ctx.route # ""
        /\ "trace_id" \in Keys(Added(stdout[i]))
        /\ "http.route" \in Keys(Added(stdout[i]))
        /\ stdout[j].layer = "middleware" /\ stdout[j].ctx.route = ""
        /\ "trace_id" \in Keys(Added(stdout[j]))

\* the correlation fields among a list of attributes
Correlation(as) ==
    {as[i] : i \in {k \in DOMAIN as :
                        as[k][1] \in {"trace_id", "span_id", "http.route"}}}

\* C13: a record the use case or the repository writes while handling a
\* request with a valid span context carries the correlation fields the
\* logger of enabled mode gives it, in either mode.
C13_SameCorrelationInNoOp ==
    \A i \in DOMAIN stdout :
        LET rec == stdout[i]
        IN  (/\ rec.layer \in {"service", "repository"}
             /\ rec.ctx.TraceID # "" /\ rec.ctx.SpanID # "") =>
                Correlation(rec.attrs) =
                    Correlation(Emit(NewTelemetry.Logger, rec.layer, rec.ctx,
                                     rec.msg, rec.orig).attrs)

\* Telemetry.Shutdown has returned to the deferred func of main
ShutdownReturned == nShutdown > 0 /\ mpc \in {"sd_return", "exited"}

\* C14: once Telemetry.Shutdown has returned, with nil or with an error,
\* Shutdown has been called on the tracer provider and on the meter
\* provider, and an error of either is what Telemetry.Shutdown returned.
C14_BothProvidersShutDown ==
    ShutdownReturned =>
        /\ tpShutdown
        /\ mpShutdown
        /\ shutdownErr \in {"nil", "exporter error", "deadline exceeded"}

\* C15: the deferred shutdown of main calls Telemetry.Shutdown with a
\* context of 5 seconds; once started it ends and the process exits,
\* whatever the providers return; the step that gets an error from it only
\* prints it, and no step that sets or prints the error touches the store,
\* the counters or the response of a request.
C15_ShutdownTerminates ==
    /\ [](nShutdown > 0 => shutdownCtx.timeout = 5)
    /\ (mpc = "deferred" ~> mpc = "exited")
    /\ [][(shutdownErr' # shutdownErr \/ stderr' # stderr) =>
             UNCHANGED <<products, heap, nalloc, ncalls,
                         productCreatedCounter, productOperations, last,
                         serverUp>>]_vars
    /\ [][(mpc = "sd_return" /\ mpc' # mpc) =>
             /\ mpc' = "exited"
             /\ stderr' = IF shutdownErr = "nil" THEN stderr
                          ELSE Append(stderr, "Error shutting down telemetry")
             /\ UNCHANGED <<storeVars, trackerVars, stdout, last>>]_vars

\* C15 witness: the tracer provider ran into the deadline, the error was
\* printed and the process has exited, with requests served meanwhile.
C15_Witness ==
    /\ mpc = "exited"
    /\ shutdownErr = "deadline exceeded"
    /\ stderr # <<>>
    /\ ncalls > 0

\* C16: a process that has shut down has constructed exactly one Telemetry
\* and has called its Shutdown exactly once, under a deadline, in enabled
\* and in disabled mode.
C16_ShutdownExactlyOnce ==
    mpc = "exited" =>
        /\ nConstructed = 1
        /\ nShutdown = 1
        /\ shutdownCtx.timeout > 0

\* the operation attribute of the use case behind a request
OperationOf(q) ==
    CASE q.kind = "create" -> "create"
      [] q.kind = "get" -> "read"
      [] q.kind = "list" -> "list"

\* the repository method of the use case behind a request
StoreMethodOf(q) ==
    CASE q.kind = "create" -> "Create"
      [] q.kind = "get" -> "FindByID"
      [] q.kind = "list" -> "FindAll"

\* the input of a create request does not pass Product.Validate
InvalidInput(q) == q.kind = "create" /\ (q.Name = "" \/ q.Price <= 0)

\* C17 as stated: every use-case call has made exactly one repository call
\* and one increment of products.operations, with result success exactly
\* when it returned no error.
C17_ExactlyOneStoreCall ==
    last.called =>
        /\ Len(last.storeCalls) = 1
        /\ Len(last.ops) = 1
        /\ last.ops[1][1] = OperationOf(last.request)
        /\ last.ops[1][2] \in {"success", "failure", "not_found"}
        /\ (last.ops[1][2] = "success") = (last.err = "nil")
        /\ (last.spanStatus = "Ok") = (last.err = "nil")

\* C17 amended: every use-case call makes one repository call, of its own
\* method, except CreateProduct on input that fails validation, which makes
\* none; on every return path it raises products.operations by one, at the
\* attribute set of its operation and a result that is success exactly when
\* it returns no error; its span status is Ok then and Error otherwise.
C17_UseCaseContract ==
    [][(Served /\ last'.called) =>
          /\ last'.storeCalls = IF InvalidInput(last'.request) THEN <<>>
                                ELSE <<StoreMethodOf(last'.request)>>
          /\ \E a \in OpAttrs :
                /\ productOperations' =
                       [productOperations EXCEPT ![a] = @ + 1]
                /\ a[1] = OperationOf(last'.request)
                /\ (a[2] = "success") = (last'.err = "nil")
          /\ last'.spanStatus = IF last'.err = "nil" THEN "Ok" ELSE "Error"]_vars

\* C17 witness: a CreateProduct that failed validation made no repository
\* call and was counted as a failure.
C17_Witness ==
    /\ last.called
    /\ last.request.kind = "create"
    /\ last.err = "ErrInvalidProductPrice"
    /\ last.storeCalls = <<>>
    /\ productOperations[<<"create", "failure">>] = 1
    /\ last.spanStatus = "Error"

\* C18: when the repository call of a use case fails, the use case returns
\* the repository's error itself and a nil result, and the handler answers
\* by the kind of that error: 404 for ErrProductNotFound, 400 for the
\* validation errors, 500 for anything else.
C18_ErrorPropagated ==
    [][Served =>
          /\ (/\ last'.request.kind = "get"
              /\ MapLookup(products, last'.request.id).err # "nil") =>
                 /\ last'.err = MapLookup(products, last'.request.id).err
                 /\ last'.result = <<>>
                 /\ last'.status = 404
          /\ (last'.called /\ last'.err # "nil") =>
                 /\ last'.result = <<>>
                 /\ last'.status =
                       CASE last'.err \in {"ErrInvalidProductName",
                                           "ErrInvalidProductPrice"} -> 400
                         [] last'.err = "ErrProductNotFound" -> 404
                         [] OTHER -> 500]_vars

\* C18 witness: FindByID failed on an unknown identifier while the store
\* holds a product, and the request was answered 404.
C18_Witness ==
    /\ last.request.kind = "get"
    /\ last.storeCalls = <<"FindByID">>
    /\ last.err = "ErrProductNotFound"
    /\ last.result = <<>>
    /\ last.status = 404
    /\ DOMAIN products # {}

\* C19: a create request whose name is empty or whose price is not above
\* zero gets the validation error, makes no call of the repository's
\* Create, leaves the store as it is and does not raise
\* products.created.total.
C19_InvalidCreateRejected ==
    [][(Served /\ last'.request.valid /\ InvalidInput(last'.request)) =>
          /\ last'.err = IF last'.request.Name = ""
                         THEN "ErrInvalidProductName"
                         ELSE "ErrInvalidProductPrice"
          /\ last'.result = <<>>
          /\ last'.status = 400
          /\ last'.storeCalls = <<>>
          /\ products' = products
          /\ heap' = heap
          /\ productCreatedCounter' = productCreatedCounter]_vars

\* C19 witness: a create request with price 0 was rejected while the store
\* already held a product.
C19_Witness ==
    /\ last.request.kind = "create"
    /\ last.request.Name # ""
    /\ last.request.Price = 0
    /\ last.status = 400
    /\ DOMAIN products # {}
    /\ productCreatedCounter = Cardinality(DOMAIN products)

\* C20: every record in the store has a non-empty name and a price above
\* zero, is stored under its own identifier, and no other record of the
\* store has that identifier.
C20_StoreRecordsValid ==
    \A k \in DOMAIN products :
        /\ heap[products[k]].Name # ""
        /\ heap[products[k]].Price > 0
        /\ heap[products[k]].ID = k
        /\ \A j \in DOMAIN products :
              heap[products[j]].ID = heap[products[k]].ID => j = k

\* C20 witness: the store holds two records.
C20_Witness ==
    /\ Cardinality(DOMAIN products) = 2
    /\ last.request.kind = "create"
    /\ last.status = 201

(***************************************************************************)
(* Properties of the whole chain (checked under SpecChain)                 *)
(***************************************************************************)
\* C23: for every request StructuredLogger emits exactly one "HTTP request
\* completed" record, and it does so after the chain below it has finished,
\* whether the handler returned early, wrote nothing, wrote several times
\* or panicked and was recovered.
C23_OneCompletionRecord ==
    \A r \in Reqs :
        /\ completed[r] <= 1
        /\ pc[r] = "served" <=> completed[r] = 1

\* C23 witness: a request whose handler wrote and then panicked has its one
\* record.
C23_Witness ==
    \E r \in Reqs :
        /\ pc[r] = "served" /\ completed[r] = 1
        /\ wrapped[r] /\ incrementDone[r] /\ ~decrementDone[r]

\* every -1 of request r comes after a +1
DecrementAfterIncrement(r) ==
    \A i \in DOMAIN activeRequests[r] :
        activeRequests[r][i].delta = -1 =>
            \E j \in 1..(i - 1) : activeRequests[r][j].delta = 1

\* C24: the events of a tracked request come in the order increment,
\* response write, decrement, completion log: a write finds the increment
\* recorded and no decrement, a decrement comes after the increment, and
\* the completion log is written after the decrement.
C24_EventOrder ==
    [][\A r \in Reqs :
          wrapped[r] =>
              /\ nwrites'[r] > nwrites[r] =>
                     (Adds(r, 1)' >= 1 /\ Adds(r, -1)' = 0)
              /\ DecrementAfterIncrement(r)'
              /\ completed'[r] > completed[r] => Adds(r, -1) >= 1]_vars

\* C26: incrementIfNeeded and ensureDecrement are idempotent per request:
\* once either has run, a further call records nothing, so a request never
\* has more than one +1 or more than one -1.
C26_Idempotent ==
    [][\A r \in Reqs :
          /\ (wrapped[r] /\ nwrites'[r] > nwrites[r]) =>
                 /\ incrementIfNeeded(r)' = activeRequests'[r]
                 /\ incrementDone[r] =>
                        activeRequests'[r] = activeRequests[r]
          /\ (pc[r] = "finalize" /\ pc'[r] = "done") =>
                 /\ ensureDecrement(r)' = activeRequests'[r]
                 /\ incrementIfNeeded(r)' = activeRequests'[r]
          /\ Adds(r, 1)' <= 1
          /\ Adds(r, -1)' <= 1]_vars

\* C26 witness: a handler wrote as often as it may, the tracker ran
\* ensureDecrement, and one pair is recorded.
C26_Witness ==
    \E r \in Reqs :
        /\ wrapped[r] /\ pc[r] = "done" /\ nwrites[r] = MaxWrites
        /\ Adds(r, 1) = 1 /\ Adds(r, -1) = 1

\* sum of the deltas recorded for the requests 1..n
RECURSIVE SumActive(_)
SumActive(n) == IF n = 0 THEN 0 ELSE ActiveCount(n) + SumActive(n - 1)

\* the handler of request r has panicked
Panicked(r) ==
    \/ pc[r] \in {"panicking", "recovered"}
    \/ pc[r] = "served" /\ wrapped[r] /\ ~decrementDone[r]

\* the increment of request r is recorded and its decrement is not
Active(r) == Adds(r, 1) >= 1 /\ Adds(r, -1) = 0

\* request r is inside the tracker's handler func
Handled(r) == pc[r] \in {"tracker", "handler", "finalize"}

\* C27: with requests handled at the same time and no handler panicking,
\* the sum of all recorded deltas is the number of requests incremented
\* and not yet decremented, it is never negative, and it is 0 whenever no
\* request is being handled.
C27_SumOfDeltas ==
    (\A r \in Reqs : ~Panicked(r)) =>
        /\ SumActive(NumReqs) = Cardinality({r \in Reqs : Active(r)})
        /\ SumActive(NumReqs) >= 0
        /\ (\A r \in Reqs : ~Handled(r)) => SumActive(NumReqs) = 0

\* C27 witness: every request is in its handler, incremented and not yet
\* decremented.
C27_Witness ==
    /\ \A r \in Reqs : pc[r] = "handler" /\ Active(r)
    /\ SumActive(NumReqs) = NumReqs

\* C29: the route HTTPRouteContext stored in the context of a request is
\* the http.route attribute of the request's increment and decrement.
C29_SameRoute ==
    \A r \in Reqs :
        \A i \in DOMAIN activeRequests[r] :
            activeRequests[r][i].attrs.route = httpRoute[r]

(***************************************************************************)
(* Properties of the served requests (checked under SpecApp)               *)
(***************************************************************************)
\* C21: a successful create returns a record with a newly generated
\* identifier, the name and the price of the request, and a created-at
\* timestamp equal to its updated-at timestamp.
C21_CreatedRecord ==
    [][(Served /\ last'.request.kind = "create" /\ last'.status = 201) =>
          /\ last'.body.id \notin DOMAIN products
          /\ last'.body.id \in DOMAIN products'
          /\ last'.body.name = last'.request.Name
          /\ last'.body.price = last'.request.Price
          /\ last'.body.created_at = last'.body.updated_at]_vars

(***************************************************************************)
(* Properties of the error responses (checked under SpecErrors)            *)
(***************************************************************************)
\* C22: every error response has a body with a category field and a
\* message field, and for status 500 the body carries the generic category
\* label and not the text of the underlying error.
C22_ErrorBody ==
    \A i \in DOMAIN written :
        /\ DOMAIN written[i].resp.body = {"error", "message"}
        /\ written[i].resp.status = 500 =>
               /\ written[i].resp.body.error = "internal_server_error"
               /\ written[i].resp.body.message # ErrorText(written[i].err)

(***************************************************************************)
(* Properties of the repository's logging (checked under SpecStore)        *)
(***************************************************************************)
\* C25: the lock of the store is held around the map read or write only:
\* no goroutine writes a log record while it holds the lock.
C25_NoLogUnderLock ==
    \A p \in Procs : RepoLog(p) # <<>> => ~(InWrite(p) \/ InRead(p))

(***************************************************************************)
(* Properties of concurrent first writes (checked under SpecRace)          *)
(***************************************************************************)
\* C28: when the first writes to one response come from goroutines running
\* at the same time, exactly one increment is recorded for the request.
C28_OneIncrement ==
    \A r \in Reqs :
        wrapped[r] =>
            /\ Adds(r, 1) <= 1
            /\ (wreq = r /\ \A g \in Writers : wpc[g] = "done") =>
                   Adds(r, 1) = 1

(***************************************************************************)
(* Properties of concurrent creates (checked under SpecCreate)             *)
(***************************************************************************)
\* C30: once all calls of CreateProduct have returned, concurrent or not,
\* products.created.total is the number of records in the store: the
\* counter is incremented once per create that stored a record, after the
\* store accepted it, and never for a failed create.
C30_CounterIsStoreSize ==
    /\ productCreatedCounter <= Cardinality(DOMAIN products)
    /\ (\A p \in Procs : upc[p] = "idle") =>
           /\ productCreatedCounter = Cardinality(DOMAIN products)
           /\ productCreatedCounter =
                  ncalls - productOperations[<<"create", "failure">>]

\* C30 witness: every call has returned, one of them failed, and the
\* others are counted and stored.
C30_Witness ==
    /\ \A p \in Procs : upc[p] = "idle"
    /\ ncalls = MaxCalls
    /\ productOperations[<<"create", "failure">>] = 1
    /\ productCreatedCounter = MaxCalls - 1

=============================================================================
